---- MODULE Spec2Model ----
(***************************************************************************)
(* A model of the BizLaw Advisor search and synthesis pipeline:             *)
(*   bizlaw_advisor/config.py          SourceConfig                         *)
(*   bizlaw_advisor/search_service.py  SearchService                        *)
(*   bizlaw_advisor/llm_service.py     LLMService.generate_response         *)
(*   bizlaw_advisor/frontend.py        StreamlitApp._generate_response      *)
(*                                                                         *)
(* Strings are modelled as sequences of tokens.  A token is a piece of text *)
(* that none of the string operations of the program looks inside: a host  *)
(* label, a dot, the three-backtick delimiter, a whole JSON document.      *)
(***************************************************************************)
EXTENDS Integers, Sequences, FiniteSets, TLC

(***************************************************************************)
(* Sequence helpers.                                                       *)
(***************************************************************************)
Range(s) == {s[i] : i \in 1..Len(s)}

SeqsUpTo(S, n) == UNION {[1..k -> S] : k \in 0..n}

RECURSIVE Concat(_)
Concat(ss) == IF ss = <<>> THEN <<>> ELSE Head(ss) \o Concat(Tail(ss))

Max2(a, b) == IF a >= b THEN a ELSE b

(***************************************************************************)
(* config.py                                                               *)
(***************************************************************************)
FEDERAL_SOURCES ==
    << <<"irs", ".", "gov">>, <<"osha", ".", "gov">>, <<"epa", ".", "gov">>,
       <<"dol", ".", "gov">>, <<"msha", ".", "gov">>, <<"eeoc", ".", "gov">>,
       <<"hhs", ".", "gov">>, <<"sba", ".", "gov">>, <<"ecfr", ".", "gov">>,
       <<"govinfo", ".", "gov">> >>

DOMAIN_PRIORITY == << <<".", "gov">>, <<".", "org">> >>

(***************************************************************************)
(* URLs.  A URL is a token sequence such as                                *)
(*   <<"https:", "//", "irs", ".", "gov", ":", "443", "/", "page">>.       *)
(***************************************************************************)
SchemeTokens == {"https:"}
NetlocEnd == {"/", "?", "#"}

\* str.lower() on one token.
LowerToken(t) ==
    CASE t = "IRS" -> "irs"
      [] t = "GOV" -> "gov"
      [] t = "ORG" -> "org"
      [] OTHER -> t

Lower(s) == [i \in 1..Len(s) |-> LowerToken(s[i])]

\* s.endswith(suffix)
EndsWith(s, suffix) ==
    /\ Len(s) >= Len(suffix)
    /\ SubSeq(s, Len(s) - Len(suffix) + 1, Len(s)) = suffix

\* The prefix of s before its first token in stop (all of s when none is).
RECURSIVE TakeUntil(_, _)
TakeUntil(s, stop) ==
    IF s = <<>> \/ Head(s) \in stop THEN <<>>
    ELSE <<Head(s)>> \o TakeUntil(Tail(s), stop)

\* urllib.parse.urlparse(url).netloc: what follows "//" (after the scheme, if
\* any) up to the first "/", "?" or "#"; empty when the URL has no "//".
Netloc(url) ==
    LET rest == IF url # <<>> /\ Head(url) \in SchemeTokens THEN Tail(url) ELSE url
    IN  IF rest # <<>> /\ Head(rest) = "//" THEN TakeUntil(Tail(rest), NetlocEnd)
        ELSE <<>>

\* SearchService.is_official_source
is_official_source(url) ==
    LET domain == Lower(Netloc(url))
    IN  \E k \in 1..Len(DOMAIN_PRIORITY) : EndsWith(domain, DOMAIN_PRIORITY[k])

(***************************************************************************)
(* Model output.  A text is a token sequence over TextTokens: the          *)
(* three-backtick delimiter, the tag json, a run of whitespace, a piece of *)
(* prose, and whole JSON documents (none of which holds a backtick).       *)
(***************************************************************************)
Fence == "FENCE"
Tag == "json"
Ws == " "
Prose == "Here:"
JsonDocs == {"{A}", "{B}", "{M}", "[L]"}
TextTokens == {Fence, Tag, Ws, Prose} \cup JsonDocs

RequiredKeys ==
    <<"summary", "key_points", "jurisdiction_analysis", "compliance_steps",
      "overlapping_regulations">>

\* What json.loads makes of each JSON document: {A} and {B} are objects with the
\* five keys ({B} with one more), {M} is an object without
\* overlapping_regulations, [L] is an array.
JsonValue(d) ==
    CASE d = "{A}" -> [type |-> "object", keys |-> Range(RequiredKeys), id |-> "A"]
      [] d = "{B}" -> [type |-> "object", keys |-> Range(RequiredKeys) \cup {"note"},
                       id |-> "B"]
      [] d = "{M}" -> [type |-> "object",
                       keys |-> Range(RequiredKeys) \ {"overlapping_regulations"},
                       id |-> "M"]
      [] OTHER -> [type |-> "array", keys |-> {}, id |-> "L"]

\* The value the decoded object holds under key.
FieldValue(v, key) == <<v.id, key>>

\* The re.sub of llm_service.py line 110 (pattern: fence, json, a shortest
\* group, fence; flags DOTALL): every leftmost, shortest stretch from a fence
\* directly followed by the tag json to the next fence is replaced by what
\* lies between the two.
RECURSIVE StripFences(_)
StripFences(s) ==
    IF s = <<>> THEN <<>>
    ELSE IF /\ Len(s) >= 3
            /\ s[1] = Fence
            /\ s[2] = Tag
            /\ \E k \in 3..Len(s) : s[k] = Fence
         THEN LET k == CHOOSE k \in 3..Len(s) :
                          /\ s[k] = Fence
                          /\ \A m \in 3..(k - 1) : s[m] # Fence
              IN  SubSeq(s, 3, k - 1) \o StripFences(SubSeq(s, k + 1, Len(s)))
         ELSE <<Head(s)>> \o StripFences(Tail(s))

\* str.strip()
RECURSIVE LStrip(_)
LStrip(s) == IF s # <<>> /\ Head(s) = Ws THEN LStrip(Tail(s)) ELSE s

RECURSIVE RStrip(_)
RStrip(s) ==
    IF s # <<>> /\ s[Len(s)] = Ws THEN RStrip(SubSeq(s, 1, Len(s) - 1)) ELSE s

Strip(s) == RStrip(LStrip(s))

\* llm_service.py line 110
CleanResult(result) == Strip(StripFences(result))

\* json.loads: one JSON document, whitespace around it allowed.
JsonDecodes(s) == Len(Strip(s)) = 1 /\ Strip(s)[1] \in JsonDocs

json_loads(s) == JsonValue(Strip(s)[1])

\* The first required key the decoded value does not hold, in the order in which
\* LegalResponse(...) reads them; 0 when it holds all.
FirstMissing(v) ==
    IF \A i \in 1..Len(RequiredKeys) : RequiredKeys[i] \in v.keys THEN 0
    ELSE CHOOSE i \in 1..Len(RequiredKeys) :
            /\ RequiredKeys[i] \notin v.keys
            /\ \A m \in 1..(i - 1) : RequiredKeys[m] \in v.keys

SourceUrls(laws) == [i \in 1..Len(laws) |-> laws[i].url]

\* A plausible slip: the URLs are collected without repeats.
RECURSIVE Dedup(_)
Dedup(s) ==
    IF s = <<>> THEN <<>>
    ELSE LET rest == Dedup(SubSeq(s, 1, Len(s) - 1))
         IN  IF s[Len(s)] \in Range(rest) THEN rest ELSE rest \o <<s[Len(s)]>>

CollectSourcesDedup(federal_laws, state_laws, local_laws) ==
    Dedup(SourceUrls(federal_laws \o state_laws \o local_laws))

\* llm_service.py lines 118-121
CollectSources(federal_laws, state_laws, local_laws) ==
    SourceUrls(federal_laws \o state_laws \o local_laws)

NoError == [type |-> "none", doc |-> <<>>]

\* LLMService.generate_response from the raw model output on: the outcome is
\* a LegalResponse (ok) or the exception that leaves the method.
generate_response(federal_laws, state_laws, local_laws, raw, elapsed) ==
    LET cleaned == CleanResult(raw)
    IN  IF ~JsonDecodes(cleaned)
        THEN [ok |-> FALSE, response |-> <<>>,
              error |-> [type |-> "JSONDecodeError", doc |-> cleaned]]
        ELSE LET parsed == json_loads(cleaned)
             IN  IF parsed.type # "object"
                 THEN [ok |-> FALSE, response |-> <<>>,
                       error |-> [type |-> "TypeError", doc |-> <<>>]]
                 ELSE IF FirstMissing(parsed) # 0
                 THEN [ok |-> FALSE, response |-> <<>>,
                       error |-> [type |-> "KeyError",
                                  doc |-> <<RequiredKeys[FirstMissing(parsed)]>>]]
                 ELSE [ok |-> TRUE,
                       response |-> <<[
                           federal_laws |-> federal_laws,
                           state_laws |-> state_laws,
                           local_laws |-> local_laws,
                           summary |-> FieldValue(parsed, "summary"),
                           key_points |-> FieldValue(parsed, "key_points"),
                           jurisdiction_analysis |->
                               FieldValue(parsed, "jurisdiction_analysis"),
                           compliance_steps |-> FieldValue(parsed, "compliance_steps"),
                           overlapping_regulations |->
                               FieldValue(parsed, "overlapping_regulations"),
                           sources |-> CollectSources(federal_laws, state_laws,
                                                      local_laws),
                           response_time |-> elapsed]>>,
                       error |-> NoError]

(***************************************************************************)
(* search_service.py                                                       *)
(***************************************************************************)
Jurisdictions == {"Federal", "State", "Local"}

\* The arguments of asyncio.gather, in argument order (frontend.py 196-200).
GatherOrder == <<"Federal", "State", "Local">>

\* Lines 75-81.  An absent jurisdiction or state is the empty string.
ScopedQuery(query, jurisdiction, state) ==
    IF jurisdiction = "Federal" THEN query \o <<"site:(.gov)">>
    ELSE IF jurisdiction = "State" /\ state # "" 
         THEN query \o <<state, "state law", "site:(.gov)">>
    ELSE IF jurisdiction = "Local" /\ state # ""
         THEN query \o <<"local law", "site:(.gov)">>
    ELSE query

\* Lines 95-102: the record built from one provider result.
SourceOf(result, jurisdiction) ==
    [url |-> result.link,
     jurisdiction |-> IF jurisdiction # "" THEN jurisdiction ELSE "Unknown",
     title |-> result.title,
     description |-> result.snippet,
     relevance_score |-> 1,
     content |-> result]

\* A plausible slip: each record is put at the front of the list.
RECURSIVE BuildSourcesNewestFirst(_, _, _)
BuildSourcesNewestFirst(results, jurisdiction, sources) ==
    IF results = <<>> THEN [sources |-> sources, exc |-> FALSE]
    ELSE LET result == Head(results)
         IN  IF "link" \notin DOMAIN result
             THEN [sources |-> sources, exc |-> TRUE]
             ELSE IF ~is_official_source(result.link)
             THEN BuildSourcesNewestFirst(Tail(results), jurisdiction, sources)
             ELSE IF "title" \notin DOMAIN result \/ "snippet" \notin DOMAIN result
             THEN [sources |-> sources, exc |-> TRUE]
             ELSE BuildSourcesNewestFirst(Tail(results), jurisdiction,
                                          <<SourceOf(result, jurisdiction)>> \o sources)

\* Lines 87-103: the loop over the organic results.  A result without its link,
\* or a trusted one without its title or snippet, raises KeyError: the loop
\* stops there with the records appended so far.
RECURSIVE BuildSources(_, _, _)
BuildSources(results, jurisdiction, sources) ==
    IF results = <<>> THEN [sources |-> sources, exc |-> FALSE]
    ELSE LET result == Head(results)
         IN  IF "link" \notin DOMAIN result
             THEN [sources |-> sources, exc |-> TRUE]
             ELSE IF ~is_official_source(result.link)
             THEN BuildSources(Tail(results), jurisdiction, sources)
             ELSE IF "title" \notin DOMAIN result \/ "snippet" \notin DOMAIN result
             THEN [sources |-> sources, exc |-> TRUE]
             ELSE BuildSources(Tail(results), jurisdiction,
                               Append(sources, SourceOf(result, jurisdiction)))

\* Lines 105-108: the except clause prints the error and falls through to the
\* return of the list as it stands.
SearchFailed(sources) == [sources |-> sources, raised |-> FALSE]

\* Lines 84-108: the try block, given what the provider call did.  outcome is
\* [kind |-> "raise"] or [kind |-> "ok", payload |-> the decoded response].
SearchOutcome(jurisdiction, outcome) ==
    IF outcome.kind = "raise" THEN SearchFailed(<<>>)
    ELSE IF "organic" \notin DOMAIN outcome.payload THEN SearchFailed(<<>>)
    ELSE LET b == BuildSources(outcome.payload.organic, jurisdiction, <<>>)
         IN  IF b.exc THEN SearchFailed(b.sources)
             ELSE [sources |-> b.sources, raised |-> FALSE]

\* SearchService.search_legal_sources
search_legal_sources(query, jurisdiction, state, outcome) ==
    [search_query |-> ScopedQuery(query, jurisdiction, state)]
        @@ SearchOutcome(jurisdiction, outcome)

\* SearchService.get_session (lines 28-32): the session is created on first
\* use.  Only extract_content calls it.
get_session(s) == IF s = "none" THEN "open" ELSE s

\* SearchService.close (lines 34-38)
close(s) == "none"

\* A plausible slip: get_federal_laws returns inside its loop.
NumQueriesFirstOnly(j) == 1

\* The number of scoped queries of each aggregation: get_federal_laws loops
\* over FEDERAL_SOURCES, get_state_laws and get_local_laws call once.
NumQueries(j) == IF j = "Federal" THEN Len(FEDERAL_SOURCES) ELSE 1

\* The arguments of the k-th search_legal_sources call of aggregation j
\* (lines 116-119, 126, 130-131).
CallArgs(j, k, query, context) ==
    IF j = "Federal"
    THEN [query |-> query \o <<"site:">> \o FEDERAL_SOURCES[k],
          jurisdiction |-> "Federal", state |-> ""]
    ELSE IF j = "State"
    THEN [query |-> query, jurisdiction |-> "State", state |-> context.state]
    ELSE [query |-> query \o <<context.city, context.state>>,
          jurisdiction |-> "Local", state |-> context.state]

(***************************************************************************)
(* The environment: what the search provider and the generative model may  *)
(* answer.                                                                 *)
(***************************************************************************)
MaxRuns == 2
MaxFaults == 1
CallLatency == 1

SiteUrl(domain) == <<"https:", "//">> \o domain \o <<"/">>
StateUrl == <<"https:", "//", "mo", ".", "gov", "/", "statutes">>
LocalUrl == <<"https:", "//", "stlouis", ".", "org", "/">>
OtherUrl == <<"https:", "//", "example", ".", "com", "/", "gov">>
AltUrl == <<"https:", "//", "law", ".", "org", "/">>

Result(link) == [link |-> link, title |-> <<"T">> \o link, snippet |-> <<"S">> \o link]
NoTitle(link) == [link |-> link, snippet |-> <<"S">> \o link]

Ok(results) == [kind |-> "ok", payload |-> [organic |-> results]]

\* The answer to the k-th scoped query of aggregation j when nothing goes
\* wrong: a page of the searched site and a page of an untrusted one.
DefaultOutcome(j, k) ==
    IF j = "Federal" THEN Ok(<<Result(SiteUrl(FEDERAL_SOURCES[k])), Result(OtherUrl)>>)
    ELSE IF j = "State" THEN Ok(<<Result(StateUrl), Result(SiteUrl(FEDERAL_SOURCES[1]))>>)
    ELSE Ok(<<Result(OtherUrl), Result(LocalUrl)>>)

Raise == [kind |-> "raise", payload |-> [message |-> "timeout"]]
NoOrganic == [kind |-> "ok", payload |-> [message |-> "Unauthorized"]]
\* a trusted result, then a trusted one without its title
BadLate == Ok(<<Result(AltUrl), NoTitle(StateUrl)>>)
\* an untrusted result without its title, then a trusted one
BadUntrusted == Ok(<<NoTitle(OtherUrl), Result(AltUrl)>>)

Faults == {Raise, NoOrganic, Ok(<<>>), BadLate, BadUntrusted}

\* The payload is malformed: no organic list, or a result without a field.
Malformed(outcome) ==
    /\ outcome.kind = "ok"
    /\ \/ "organic" \notin DOMAIN outcome.payload
       \/ \E i \in 1..Len(outcome.payload.organic) :
              DOMAIN outcome.payload.organic[i] # {"link", "title", "snippet"}

Failed(outcome) == outcome.kind = "raise" \/ Malformed(outcome)

Queries == {<<"Provide Summary of Laws/Rules applicable to the Business">>,
            <<"permits">>}

TheContext ==
    [city |-> "St. Louis City", state |-> "Missouri",
     business_type |-> "Restaurant", area_of_law |-> "Taxation"]

\* What the model may answer in a pipeline run: the JSON bare, in a json fence,
\* prose in a json fence, and an object without one of the keys.
ModelOutputs ==
    { <<"{A}">>,
      <<Fence, Tag, Ws, "{B}", Ws, Fence>>,
      <<Fence, Tag, Prose, Fence>>,
      <<"{M}">> }

(***************************************************************************)
(* State.                                                                  *)
(***************************************************************************)
VARIABLES
    pc,        \* where _generate_response is: idle, searching, joined,
               \* synthesizing, complete, failed
    runs,      \* the number of _generate_response calls so far
    args,      \* [query, context] of the current call
    tstate,    \* per gathered coroutine: none, ready, running, blocked (inside
               \* the provider call), done, raised
    tpos,      \* per coroutine: the scoped queries it has completed
    tout,      \* per coroutine: the records it has collected (its result)
    inflight,  \* the provider call being made: <<>> or <<[task, query]>>
    log,       \* per coroutine: the provider calls it made, [query, outcome,
               \* sources]: the scoped query, what the provider did, what
               \* search_legal_sources returned
    order,     \* the coroutines in the order the loop first ran them
    clock,     \* time since the call began
    busy,      \* per coroutine: the time its provider calls took
    searchTime, \* the time the search phase took; -1 before the join
    budget,    \* the faulty provider answers still to come
    synthIn,   \* what generate_response was given: <<>> or <<[federal, state, local]>>
    modelOut,  \* the raw answer of the model: <<>> or <<the text>>
    outcome,   \* what _generate_response ended with: [ok, response, error]
    manifest,  \* identified_sources.json: <<>> (not written) or <<its content>>
    fin,       \* the input of the function under check (function specifications)
    fout,      \* its output: <<>> before it is applied
    session,   \* SearchService._session: "none" or "open"
    manifestWrites,  \* how many times identified_sources.json was written
    business_context, \* st.session_state.business_context: <<>> (None) or <<it>>
    chat_history,     \* st.session_state.chat_history
    applicable_laws,  \* applicable_laws.txt: <<>> (no file) or <<its text>>
    artifactContext,  \* the context whose submission wrote applicable_laws.txt
    notice,    \* what the sidebar last showed with st.error or st.success
    request,   \* the widget input of the script run being served
    pending    \* per call slot: the coroutine of SearchService suspended at an
               \* await (get, text, close), or NoCall

uiVars == <<business_context, chat_history, applicable_laws, artifactContext,
            notice, request>>

vars == <<pc, runs, args, tstate, tpos, tout, inflight, log, order, clock, busy,
          searchTime, budget, synthIn, modelOut, outcome, manifest, fin, fout,
          session, manifestWrites, uiVars, pending>>

pipeVars == <<pc, runs, args, tstate, tpos, tout, inflight, log, order, clock, busy,
              searchTime, budget, synthIn, modelOut, outcome, manifest,
              session, manifestWrites, uiVars, pending>>

NoOutcome == [ok |-> FALSE, response |-> <<>>, error |-> NoError]

NoRequest == [handler |-> "none"]

\* How many calls of the session methods of one SearchService may be under way.
MaxCalls == 2

NoCall == [method |-> "none"]

PipeInitWith(faults, active) ==
    /\ pc = "idle"
    /\ runs = 0
    /\ args = [query |-> <<>>, context |-> TheContext]
    /\ tstate = [j \in Jurisdictions |-> "none"]
    /\ tpos = [j \in Jurisdictions |-> 0]
    /\ tout = [j \in Jurisdictions |-> <<>>]
    /\ inflight = <<>>
    /\ log = [j \in Jurisdictions |-> <<>>]
    /\ order = <<>>
    /\ clock = 0
    /\ busy = [j \in Jurisdictions |-> 0]
    /\ searchTime = -1
    /\ budget = faults
    /\ synthIn = <<>>
    /\ modelOut = <<>>
    /\ outcome = NoOutcome
    /\ manifest = <<>>
    /\ session = "none"
    /\ manifestWrites = 0
    /\ business_context = active
    /\ chat_history = <<>>
    /\ applicable_laws = <<>>
    /\ artifactContext = <<>>
    /\ notice = <<>>
    /\ request = NoRequest
    /\ pending = [c \in 1..MaxCalls |-> NoCall]

\* After construction: no context is active.
PipeInit == PipeInitWith(MaxFaults, <<>>)

\* The state in which _generate_response is first called: the submission of
\* TheContext has made it the active context (lines 101-108), and neither
\* file is written yet.
Init == PipeInitWith(MaxFaults, <<TheContext>>) /\ fin = <<>> /\ fout = <<>>

(***************************************************************************)
(* frontend.py: StreamlitApp._generate_response                            *)
(***************************************************************************)
\* Lines 188-200: the call begins with the query and the context of line 192;
\* asyncio.gather schedules the three aggregations.
BeginRun(query, context) ==
    /\ pc \in {"idle", "complete", "failed"}
    /\ runs < MaxRuns
    /\ runs' = runs + 1
    /\ pc' = "searching"
    /\ args' = [query |-> query, context |-> context]
    /\ tstate' = [j \in Jurisdictions |-> "ready"]
    /\ tpos' = [j \in Jurisdictions |-> 0]
    /\ tout' = [j \in Jurisdictions |-> <<>>]
    /\ inflight' = <<>>
    /\ log' = [j \in Jurisdictions |-> <<>>]
    /\ order' = <<>>
    /\ clock' = 0
    /\ busy' = [j \in Jurisdictions |-> 0]
    /\ searchTime' = -1
    /\ synthIn' = <<>>
    /\ modelOut' = <<>>
    /\ outcome' = NoOutcome
    /\ UNCHANGED <<budget, manifest, fin, fout, pending, session, manifestWrites>>

\* _generate_response called on its own.  Line 192 reads the active context;
\* with none, context.state (line 198) raises AttributeError while the
\* arguments of asyncio.gather are built, no aggregation is scheduled, and the
\* finally clause ends the call (lines 214-217).
StartRun(query) ==
    /\ IF business_context = <<>>
       THEN /\ pc \in {"idle", "complete", "failed"}
            /\ runs < MaxRuns
            /\ runs' = runs + 1
            /\ pc' = "failed"
            /\ args' = [query |-> query, context |-> <<>>]
            /\ tstate' = [j \in Jurisdictions |-> "none"]
            /\ tpos' = [j \in Jurisdictions |-> 0]
            /\ tout' = [j \in Jurisdictions |-> <<>>]
            /\ inflight' = <<>>
            /\ log' = [j \in Jurisdictions |-> <<>>]
            /\ order' = <<>>
            /\ clock' = 0
            /\ busy' = [j \in Jurisdictions |-> 0]
            /\ searchTime' = -1
            /\ synthIn' = <<>>
            /\ modelOut' = <<>>
            /\ outcome' = [ok |-> FALSE, response |-> <<>>,
                           error |-> [type |-> "AttributeError", doc |-> <<>>]]
            /\ session' = close(session)
            /\ UNCHANGED <<budget, manifest, fin, fout, pending, manifestWrites>>
       ELSE BeginRun(query, business_context[1])
    /\ UNCHANGED uiVars

\* No coroutine holds the event loop.
LoopFree == \A j \in Jurisdictions : tstate[j] \notin {"running", "blocked"}

\* The event loop runs a scheduled coroutine for the first time.  The loop
\* picks among the ready ones; the model leaves the order open.
TaskStart(j) ==
    /\ pc = "searching"
    /\ tstate[j] = "ready"
    /\ LoopFree
    /\ tstate' = [tstate EXCEPT ![j] = "running"]
    /\ order' = Append(order, j)
    /\ UNCHANGED <<pc, runs, args, tpos, tout, inflight, log, clock, busy, searchTime,
                   budget, synthIn, modelOut, outcome, manifest, fin, fout, pending,
                   session, manifestWrites, uiVars>>

\* search_service.py line 85, the call: self.search.results(search_query) is an
\* ordinary (blocking) call, made with the scoped query of lines 75-81.
ProviderRequest(j) ==
    /\ pc = "searching"
    /\ tstate[j] = "running"
    /\ tpos[j] < NumQueries(j)
    /\ LET a == CallArgs(j, tpos[j] + 1, args.query, args.context)
       IN  inflight' = <<[task |-> j, jurisdiction |-> a.jurisdiction,
                          query |-> ScopedQuery(a.query, a.jurisdiction, a.state)]>>
    /\ tstate' = [tstate EXCEPT ![j] = "blocked"]
    /\ UNCHANGED <<pc, runs, args, tpos, tout, log, order, clock, busy, searchTime,
                   budget, synthIn, modelOut, outcome, manifest, fin, fout, pending,
                   session, manifestWrites, uiVars>>

\* search_service.py lines 85-108 and the caller's extend or return: the
\* provider call ends, the results are filtered and mapped, an exception is
\* caught, and the aggregation goes on or returns.
ProviderReturn(j) ==
    /\ pc = "searching"
    /\ tstate[j] = "blocked"
    /\ \E o \in Faults \cup {DefaultOutcome(j, tpos[j] + 1)} :
        /\ budget' = IF o = DefaultOutcome(j, tpos[j] + 1) THEN budget ELSE budget - 1
        /\ budget' >= 0
        /\ LET r == SearchOutcome(inflight[1].jurisdiction, o)
           IN  /\ tout' = [tout EXCEPT ![j] = IF r.raised THEN <<>> ELSE @ \o r.sources]
               /\ tstate' = [tstate EXCEPT ![j] =
                                IF r.raised THEN "raised"
                                ELSE IF tpos[j] + 1 = NumQueries(j) THEN "done"
                                ELSE "running"]
               /\ log' = [log EXCEPT ![j] =
                             Append(@, [query |-> inflight[1].query, outcome |-> o,
                                        sources |-> r.sources])]
    /\ tpos' = [tpos EXCEPT ![j] = @ + 1]
    /\ inflight' = <<>>
    /\ clock' = clock + CallLatency
    /\ busy' = [busy EXCEPT ![j] = @ + CallLatency]
    /\ UNCHANGED <<pc, runs, args, order, searchTime, synthIn, modelOut, outcome,
                   manifest, fin, fout, pending, session, manifestWrites, uiVars>>

\* A plausible slip: the first coroutine to finish ends the wait.
GatherDoneFirst == \E j \in Jurisdictions : tstate[j] = "done"

\* asyncio.gather (lines 196-200) returns when all three coroutines have.
GatherDone == \A j \in Jurisdictions : tstate[j] = "done"

\* asyncio.gather raises as soon as one of its coroutines has.
GatherRaised == LoopFree /\ \E j \in Jurisdictions : tstate[j] = "raised"

\* The results of asyncio.gather, in argument order whatever the completion
\* order (line 196).
GatherResults ==
    [federal |-> tout[GatherOrder[1]], state |-> tout[GatherOrder[2]],
     local |-> tout[GatherOrder[3]]]

ManifestKeys == {"Federal Laws", "State Laws", "Local Laws"}

\* Lines 201-206: the object json.dump writes to identified_sources.json.
ManifestOf(lists) ==
    [key \in ManifestKeys |->
        CASE key = "Federal Laws" -> lists.federal
          [] key = "State Laws" -> lists.state
          [] OTHER -> lists.local]

\* str(response) of a LegalResponse (line 114): the repr of the dataclass, and
\* what eval makes of such a text (line 134).
StrOf(response) == <<"LegalResponse(", response, ")">>
Eval(text) == text[2]

\* Lines 171-179: the fields of the response shown in the chat.
MessageContent(response) ==
    [summary |-> response.summary,
     key_points |-> response.key_points,
     jurisdiction_analysis |-> response.jurisdiction_analysis,
     compliance_steps |-> response.compliance_steps,
     overlapping_regulations |-> response.overlapping_regulations,
     sources |-> response.sources,
     response_time |-> response.response_time]

\* What the caller of asyncio.run does when _generate_response has ended with
\* result; nothing waits between the return and these statements.  After
\* Submit (lines 112-114, then 116-148): applicable_laws.txt is written and the
\* chat interface is rendered from it.  After a chat prompt (lines 169-186): the
\* answer is appended to the history.  An exception ends the script run at the
\* call.  Called on its own (no script run), the call has no caller to resume.
ScriptResume(result) ==
    CASE request.handler = "submit" ->
             /\ IF result.ok
                THEN /\ applicable_laws' = <<StrOf(result.response[1])>>
                     /\ artifactContext' = business_context
                     /\ notice' = [notice EXCEPT !.chat = "rendered"]
                ELSE /\ notice' = [notice EXCEPT !.chat = "exception"]
                     /\ UNCHANGED <<applicable_laws, artifactContext>>
             /\ UNCHANGED <<business_context, chat_history, request>>
      [] request.handler = "chat" ->
             /\ IF result.ok
                THEN /\ chat_history' =
                            Append(chat_history,
                                   [role |-> "assistant",
                                    content |-> MessageContent(result.response[1])])
                     /\ notice' = [notice EXCEPT !.chat = "rendered"]
                ELSE /\ notice' = [notice EXCEPT !.chat = "exception"]
                     /\ UNCHANGED chat_history
             /\ UNCHANGED <<business_context, applicable_laws, artifactContext,
                            request>>
      [] OTHER -> UNCHANGED uiVars

\* Lines 196-206: the gather returns and identified_sources.json is written;
\* or the gather raises, the finally clause ends the call (lines 214-217) and
\* the exception reaches the caller.
Join ==
    /\ pc = "searching"
    /\ LoopFree
    /\ GatherDone \/ GatherRaised
    /\ IF GatherRaised
       THEN /\ pc' = "failed"
            /\ outcome' = [ok |-> FALSE, response |-> <<>>,
                           error |-> [type |-> "ProviderError", doc |-> <<>>]]
            /\ session' = close(session)
            /\ ScriptResume(outcome')
            /\ UNCHANGED <<manifest, manifestWrites, searchTime>>
       ELSE /\ pc' = "joined"
            /\ searchTime' = clock
            /\ manifest' = <<ManifestOf(GatherResults)>>
            /\ manifestWrites' = manifestWrites + 1
            /\ UNCHANGED <<outcome, session, uiVars>>
    /\ UNCHANGED <<runs, args, tstate, tpos, tout, inflight, log, order, clock, busy,
                   budget, synthIn, modelOut, fin, fout, pending>>

\* Lines 208-210 and llm_service.py 46-105: generate_response is called with the
\* three lists and calls the model (chain.run, a blocking call).
InvokeModel ==
    /\ pc = "joined"
    /\ pc' = "synthesizing"
    /\ synthIn' = <<GatherResults>>
    /\ UNCHANGED <<runs, args, tstate, tpos, tout, inflight, log, order, clock, busy,
                   searchTime, budget, modelOut, outcome, manifest, fin, fout, pending,
                   session, manifestWrites, uiVars>>

\* A plausible slip: a failed synthesis is tried again.
AfterSynthesisRetry(result) == IF result.ok THEN "complete" ELSE "joined"

\* frontend.py 208-217: the response is returned, or the exception of
\* generate_response leaves _generate_response; nothing is tried again.
AfterSynthesis(result) == IF result.ok THEN "complete" ELSE "failed"

\* llm_service.py 107-134 and frontend.py 212-217: the model answers raw; the
\* answer is cleaned and decoded, the response is built and returned, or the
\* exception leaves generate_response and _generate_response (there is no
\* except clause on the way); the finally clause runs either way, and the
\* caller of asyncio.run goes on (ScriptResume).
ModelReturn(raw) ==
    /\ pc = "synthesizing"
    /\ clock' = clock + CallLatency
    /\ modelOut' = <<raw>>
    /\ outcome' = generate_response(synthIn[1].federal, synthIn[1].state,
                                    synthIn[1].local, raw, CallLatency)
    /\ pc' = AfterSynthesis(outcome')
    /\ session' = close(session)
    /\ ScriptResume(outcome')
    /\ UNCHANGED <<runs, args, tstate, tpos, tout, inflight, log, order, busy,
                   searchTime, budget, synthIn, manifest, fin, fout, pending,
                   manifestWrites>>

Next ==
    \/ \E q \in Queries : StartRun(q)
    \/ \E j \in Jurisdictions : TaskStart(j)
    \/ \E j \in Jurisdictions : ProviderRequest(j)
    \/ \E j \in Jurisdictions : ProviderReturn(j)
    \/ Join
    \/ InvokeModel
    \/ \E raw \in ModelOutputs : ModelReturn(raw)

Spec == Init /\ [][Next]_vars

(***************************************************************************)
(* The trusted-domain check on its own: every URL of UrlInputs is given to *)
(* is_official_source.                                                     *)
(***************************************************************************)
MaxLabels == 2

HostLabels == {"irs", "IRS", "gov", "GOV", "org", "com", "evil-gov", "example"}

\* The labels joined by dots.
RECURSIVE Dotted(_)
Dotted(labels) ==
    IF Len(labels) <= 1 THEN labels
    ELSE <<Head(labels), ".">> \o Dotted(Tail(labels))

HostInputs == {Dotted(l) : l \in SeqsUpTo(HostLabels, MaxLabels) \ {<<>>}}
UserinfoInputs == {<<>>, <<"user", "@">>, <<"irs", ".", "gov", "@">>}
PortInputs == {<<>>, <<":", "443">>}
PathInputs == {<<>>, <<"/", "page">>, <<"/", "gov">>, <<"/", "x", ".", "gov">>,
               <<"?", "q", ".", "org">>}

UrlInputs ==
    {<<"https:", "//">> \o u \o h \o p \o t :
        u \in UserinfoInputs, h \in HostInputs, p \in PortInputs, t \in PathInputs}

UrlInit == PipeInit /\ fin \in UrlInputs /\ fout = <<>>

CheckUrl ==
    /\ fout = <<>>
    /\ fout' = <<is_official_source(fin)>>
    /\ UNCHANGED <<pipeVars, fin>>

UrlNext == CheckUrl

SpecUrl == UrlInit /\ [][UrlNext]_vars

(***************************************************************************)
(* The synthesis on its own: generate_response with every model output of  *)
(* up to MaxTextLen tokens.                                                *)
(***************************************************************************)
MaxTextLen == 5

RawTexts == SeqsUpTo(TextTokens, MaxTextLen)

SampleFederal == <<SourceOf(Result(SiteUrl(FEDERAL_SOURCES[1])), "Federal")>>
SampleState == <<SourceOf(Result(StateUrl), "State")>>
SampleLocal == <<SourceOf(Result(LocalUrl), "Local")>>

TextInit == PipeInit /\ fin \in RawTexts /\ fout = <<>>

\* generate_response on the answer fin; cleaned and decoded are the values of
\* its locals cleaned_result and parsed_output (decoded is <<>> when json.loads
\* raises).
Synthesize ==
    /\ fout = <<>>
    /\ fout' = <<[cleaned |-> CleanResult(fin),
                  decoded |-> IF JsonDecodes(CleanResult(fin))
                              THEN <<json_loads(CleanResult(fin))>> ELSE <<>>,
                  result |-> generate_response(SampleFederal, SampleState,
                                               SampleLocal, fin, CallLatency)]>>
    /\ UNCHANGED <<pipeVars, fin>>

TextNext == Synthesize

SpecText == TextInit /\ [][TextNext]_vars

(***************************************************************************)
(* A whole pipeline run as one value: what _generate_response computes from *)
(* its arguments, the provider answers and the model answer.  plan is <<>>  *)
(* (every provider call answers as DefaultOutcome) or <<[task, pos, fault]>>*)
(* (call pos of aggregation task answers with fault).                      *)
(***************************************************************************)
PlanOutcome(plan, j, k) ==
    IF plan # <<>> /\ plan[1].task = j /\ plan[1].pos = k THEN plan[1].fault
    ELSE DefaultOutcome(j, k)

\* get_federal_laws, get_state_laws, get_local_laws: the records of the scoped
\* queries of aggregation j, in call order.
get_laws(j, query, context, plan) ==
    Concat([k \in 1..NumQueries(j) |->
               LET a == CallArgs(j, k, query, context)
               IN  search_legal_sources(a.query, a.jurisdiction, a.state,
                                        PlanOutcome(plan, j, k)).sources])

\* frontend.py 196-210: the three lists, the manifest written from them and the
\* outcome of generate_response.
PipelineRun(query, context, plan, raw) ==
    LET federal_laws == get_laws("Federal", query, context, plan)
        state_laws == get_laws("State", query, context, plan)
        local_laws == get_laws("Local", query, context, plan)
    IN  [lists |-> [federal |-> federal_laws, state |-> state_laws,
                    local |-> local_laws],
         manifest |-> ManifestOf([federal |-> federal_laws, state |-> state_laws,
                                  local |-> local_laws]),
         result |-> generate_response(federal_laws, state_laws, local_laws, raw,
                                      CallLatency)]

Plans ==
    {<<>>, <<[task |-> "Federal", pos |-> 3, fault |-> Raise]>>,
     <<[task |-> "State", pos |-> 1, fault |-> BadLate]>>,
     <<[task |-> "Local", pos |-> 1, fault |-> NoOrganic]>>}

(***************************************************************************)
(* main.py: the HTTP endpoint POST /api/query.                             *)
(***************************************************************************)
\* models.py 10-13: the attributes of a BusinessContext.
BusinessContextFields == {"city", "state", "business_type", "area_of_law"}

\* search_service.py 110, 124, 128: the parameters of each method after self.
Parameters(method) ==
    CASE method = "get_federal_laws" -> <<"query">>
      [] method = "get_state_laws" -> <<"query", "state">>
      [] OTHER -> <<"query", "city", "state">>

\* main.py 55-76: the context attributes each call reads for its arguments
\* (after request.query), in argument order.
EndpointReads(method) ==
    IF method = "get_federal_laws"
    THEN <<"city", "state", "business_type", "area_of_law", "statute_of_law">>
    ELSE <<"city", "state", "business_type", "area_of_law">>

EndpointCalls == <<"get_federal_laws", "get_state_laws", "get_local_laws">>

\* The first exception raised while the arguments of asyncio.gather are built
\* (main.py 54-77): an attribute the context does not have, or a call with
\* more arguments than the method takes; "none" when all three calls bind.
RECURSIVE GatherArgumentsError(_)
GatherArgumentsError(calls) ==
    IF calls = <<>> THEN "none"
    ELSE IF \E i \in 1..Len(EndpointReads(Head(calls))) :
                EndpointReads(Head(calls))[i] \notin BusinessContextFields
         THEN "AttributeError"
         ELSE IF 1 + Len(EndpointReads(Head(calls))) # Len(Parameters(Head(calls)))
         THEN "TypeError"
         ELSE GatherArgumentsError(Tail(calls))

\* main.py 50-95: the response of the endpoint to the request req = [query, context]
\* when the provider answers by plan and the model answers raw.
api_query(req, plan, raw) ==
    IF GatherArgumentsError(EndpointCalls) # "none"
    THEN [status |-> 500, detail |-> GatherArgumentsError(EndpointCalls), body |-> <<>>]
    ELSE LET r == PipelineRun(req.query, req.context, plan, raw).result
         IN  IF ~r.ok
             THEN [status |-> 500, detail |-> r.error.type, body |-> <<>>]
             ELSE [status |-> 200, detail |-> "",
                   body |-> <<[summary |-> r.response[1].summary,
                               key_points |-> r.response[1].key_points,
                               jurisdiction_analysis |->
                                   r.response[1].jurisdiction_analysis,
                               compliance_steps |-> r.response[1].compliance_steps,
                               overlapping_regulations |->
                                   r.response[1].overlapping_regulations,
                               sources |-> r.response[1].sources,
                               response_time |-> r.response[1].response_time]>>]

OtherContext ==
    [city |-> "Austin", state |-> "Texas",
     business_type |-> "Retail Store", area_of_law |-> "Employment and Labor"]

ApiInputs ==
    [request : [query : Queries, context : {TheContext, OtherContext}],
     plan : Plans, raw : ModelOutputs]

ApiInit == PipeInit /\ fin \in ApiInputs /\ fout = <<>>

HandleQuery ==
    /\ fout = <<>>
    /\ fout' = <<api_query(fin.request, fin.plan, fin.raw)>>
    /\ UNCHANGED <<pipeVars, fin>>

ApiNext == HandleQuery

SpecApi == ApiInit /\ [][ApiNext]_vars

(***************************************************************************)
(* frontend.py: the Streamlit application, one session.  A script run       *)
(* (StreamlitApp.run: the sidebar, then the chat interface) that needs no   *)
(* pipeline run is one step.  A script run that calls asyncio.run begins    *)
(* with SubmitContext or ChatInput, which take it to the first wait of      *)
(* _generate_response; the steps of the pipeline (TaskStart ... ModelReturn)*)
(* follow, each ending at a wait for the provider or for the model; the     *)
(* step that ends the pipeline run also ends the script run (ScriptResume). *)
(* No script run begins while another is under way.                        *)
(***************************************************************************)
SummaryPrompt == <<"Provide Summary of Laws/Rules applicable to the Business">>
ChatPrompts == Queries \ {SummaryPrompt}

\* Line 92: the first option of the selectbox, selected until the user picks
\* a category.
AreaPlaceholder == "Select Area of Law from dropdown"

CityInputs == {"", TheContext.city}
StateInputs == {"", TheContext.state, OtherContext.state}
BusinessTypeInputs == {"", TheContext.business_type}
AreaInputs == {AreaPlaceholder, TheContext.area_of_law}

\* bool(s) of a string
Truthy(s) == s # ""

\* Line 98: all([city, state, business_type, area_of_law])
AllFilled(city, state, business_type, area_of_law) ==
    Truthy(city) /\ Truthy(state) /\ Truthy(business_type) /\ Truthy(area_of_law)

\* Lines 116-148: what _render_chat_interface shows before the chat history.
RenderChat(context, file) ==
    IF context = <<>> THEN "info"
    ELSE IF file = <<>> THEN "FileNotFoundError"
    ELSE "rendered"

\* The session begins with no context, no history and neither file; the
\* provider answers as DefaultOutcome but for AppFaults answers.
AppFaults == 0

AppInit == PipeInitWith(AppFaults, <<>>) /\ fin = <<>> /\ fout = <<>>

\* No script run is under way.
ScriptIdle == pc \in {"idle", "complete", "failed"}

\* A script run with the Submit button pressed.  Lines 96-99 and 116-148 when a
\* field is empty: the error is shown and the chat interface rendered.  Lines
\* 100-112 and 188-200 otherwise: the context is replaced, the history
\* cleared, the success notice shown, and _generate_response begins with the
\* summary prompt and waits for the provider.
SubmitContext(city, state, business_type, area_of_law) ==
    /\ ScriptIdle
    /\ request' = [handler |-> "submit", city |-> city, state |-> state,
                   business_type |-> business_type, area_of_law |-> area_of_law]
    /\ IF ~AllFilled(city, state, business_type, area_of_law)
       THEN /\ notice' = [sidebar |-> "Please fill in all fields",
                          chat |-> RenderChat(business_context, applicable_laws)]
            /\ UNCHANGED <<pc, runs, args, tstate, tpos, tout, inflight, log, order,
                           clock, busy, searchTime, budget, synthIn, modelOut, outcome,
                           manifest, fin, fout, pending, session, manifestWrites,
                           business_context, chat_history, applicable_laws,
                           artifactContext>>
       ELSE LET context == [city |-> city, state |-> state,
                            business_type |-> business_type,
                            area_of_law |-> area_of_law]
            IN  /\ business_context' = <<context>>
                /\ chat_history' = <<>>
                /\ notice' = [sidebar |-> "Context updated successfully!",
                              chat |-> ""]
                /\ BeginRun(SummaryPrompt, context)
                /\ UNCHANGED <<applicable_laws, artifactContext>>

\* A script run with a chat prompt entered (lines 116-169, 188-200).  The chat
\* input is reached only when the context is set and applicable_laws.txt was
\* read.  The user message is appended and _generate_response begins with the
\* prompt and waits for the provider.
ChatInput(prompt) ==
    /\ ScriptIdle
    /\ RenderChat(business_context, applicable_laws) = "rendered"
    /\ request' = [handler |-> "chat", prompt |-> prompt]
    /\ chat_history' = Append(chat_history, [role |-> "user", content |-> prompt])
    /\ notice' = [sidebar |-> "", chat |-> ""]
    /\ BeginRun(prompt, business_context[1])
    /\ UNCHANGED <<business_context, applicable_laws, artifactContext>>

\* A script run with no input: the page is rendered again.
Rerun ==
    /\ ScriptIdle
    /\ request' = [handler |-> "rerun"]
    /\ notice' = [sidebar |-> "",
                  chat |-> RenderChat(business_context, applicable_laws)]
    /\ UNCHANGED <<pc, runs, args, tstate, tpos, tout, inflight, log, order, clock,
                   busy, searchTime, budget, synthIn, modelOut, outcome, manifest, fin,
                   fout, pending, session, manifestWrites, business_context, chat_history,
                   applicable_laws, artifactContext>>

AppNext ==
    \/ \E city \in CityInputs, state \in StateInputs,
          business_type \in BusinessTypeInputs, area_of_law \in AreaInputs :
           SubmitContext(city, state, business_type, area_of_law)
    \/ \E prompt \in ChatPrompts : ChatInput(prompt)
    \/ Rerun
    \/ \E j \in Jurisdictions : TaskStart(j)
    \/ \E j \in Jurisdictions : ProviderRequest(j)
    \/ \E j \in Jurisdictions : ProviderReturn(j)
    \/ Join
    \/ InvokeModel
    \/ \E raw \in ModelOutputs : ModelReturn(raw)

SpecApp == AppInit /\ [][AppNext]_vars

(***************************************************************************)
(* search_service.py: the SearchService object on its own, its session     *)
(* methods called by a user of the class from up to MaxCalls coroutines of  *)
(* one event loop.  A step runs a coroutine from one await that suspends it *)
(* to the next.  The pipeline calls none of get_session and extract_content *)
(* (the call of line 91 is commented out), so these steps are no part of    *)
(* Next or AppNext.  session is "closed" while _session still refers to a   *)
(* session object that has been closed.                                    *)
(***************************************************************************)
\* What session.get(url) may come back with: an exception, or a response with
\* its status.
GetAnswers == {[kind |-> "raise"], [kind |-> "response", status |-> 404],
               [kind |-> "response", status |-> 200]}

\* What response.text() may come back with: an exception, or a page that has a
\* main element, only a body, or neither.
Page(main, body) == [kind |-> "page", main |-> main, body |-> body]

TextAnswers ==
    {[kind |-> "raise"], Page(<<"M">>, <<"B">>), Page(<<>>, <<"B">>), Page(<<>>, <<>>)}

ExtractUrls == {SiteUrl(FEDERAL_SOURCES[1]), OtherUrl}

\* Lines 55-64: the text of the main element, else of the body, else None
\* (<<>>).
MainContent(page) ==
    IF page.main # <<>> THEN <<page.main>>
    ELSE IF page.body # <<>> THEN <<page.body>>
    ELSE <<>>

serviceRest ==
    <<pc, runs, args, tstate, tpos, tout, inflight, log, order, clock, busy,
      searchTime, budget, synthIn, modelOut, outcome, manifest, manifestWrites,
      uiVars>>

ServiceInit == PipeInit /\ fin = <<>> /\ fout = <<>>

\* The coroutine of slot c returns value.
Return(c, method, value) ==
    /\ pending' = [pending EXCEPT ![c] = NoCall]
    /\ fout' = <<[method |-> method, value |-> value]>>

\* get_session (lines 28-32): no await suspends it.
GetSession ==
    /\ session' = get_session(session)
    /\ fin' = <<[method |-> "get_session"]>>
    /\ fout' = <<[method |-> "get_session", value |-> session']>>
    /\ UNCHANGED <<pending, serviceRest>>

\* extract_content, lines 47-49: the session is got or created and the request
\* is sent; the coroutine waits for the response.  On a closed session the
\* request raises at once and the except clause returns None (lines 66-68).
ExtractBegin(c, url) ==
    /\ pending[c] = NoCall
    /\ session' = get_session(session)
    /\ fin' = <<[method |-> "extract_content", url |-> url]>>
    /\ IF session' = "closed"
       THEN Return(c, "extract_content", <<>>)
       ELSE /\ pending' = [pending EXCEPT ![c] =
                              [method |-> "extract_content", at |-> "get", url |-> url]]
            /\ UNCHANGED fout
    /\ UNCHANGED serviceRest

\* Lines 49-53: the response arrives or the request raises; a status other
\* than 200 and an exception return None; otherwise the coroutine waits for
\* the text of the page.
ExtractResponse(c, answer) ==
    /\ pending[c] # NoCall
    /\ pending[c].method = "extract_content" /\ pending[c].at = "get"
    /\ IF answer.kind = "raise" \/ answer.status # 200
       THEN Return(c, "extract_content", <<>>)
       ELSE /\ pending' = [pending EXCEPT ![c].at = "text"]
            /\ UNCHANGED fout
    /\ UNCHANGED <<session, fin, serviceRest>>

\* Lines 53-68: the text arrives and the content is returned, or the read
\* raises and None is returned.
ExtractText(c, answer) ==
    /\ pending[c] # NoCall
    /\ pending[c].method = "extract_content" /\ pending[c].at = "text"
    /\ Return(c, "extract_content",
              IF answer.kind = "raise" THEN <<>> ELSE MainContent(answer))
    /\ UNCHANGED <<session, fin, serviceRest>>

\* close, lines 36-37: with no session it returns; otherwise the session
\* object is closed.  Closing an open session waits for its connector; a
\* closed one has nothing to wait for, and line 38 follows at once.
CloseBegin(c) ==
    /\ pending[c] = NoCall
    /\ fin' = <<[method |-> "close"]>>
    /\ IF session = "open"
       THEN /\ session' = "closed"
            /\ pending' = [pending EXCEPT ![c] = [method |-> "close", at |-> "close"]]
            /\ UNCHANGED fout
       ELSE /\ session' = close(session)
            /\ Return(c, "close", <<>>)
    /\ UNCHANGED serviceRest

\* close, line 38: _session is reset, whatever it refers to by now.
CloseEnd(c) ==
    /\ pending[c] # NoCall
    /\ pending[c].method = "close"
    /\ session' = close(session)
    /\ Return(c, "close", <<>>)
    /\ UNCHANGED <<fin, serviceRest>>

ServiceNext ==
    \/ GetSession
    \/ \E c \in 1..MaxCalls, url \in ExtractUrls : ExtractBegin(c, url)
    \/ \E c \in 1..MaxCalls, answer \in GetAnswers : ExtractResponse(c, answer)
    \/ \E c \in 1..MaxCalls, answer \in TextAnswers : ExtractText(c, answer)
    \/ \E c \in 1..MaxCalls : CloseBegin(c)
    \/ \E c \in 1..MaxCalls : CloseEnd(c)

SpecService == ServiceInit /\ [][ServiceNext]_vars

(***************************************************************************)
(* One scoped search on its own: search_legal_sources with every           *)
(* jurisdiction argument (the empty string for an absent one), with and    *)
(* without a state, and every provider answer of SearchAnswers.            *)
(***************************************************************************)
SearchAnswers ==
    Faults \cup {DefaultOutcome(j, 1) : j \in Jurisdictions}
           \cup {Ok(<<Result(AltUrl), Result(OtherUrl), Result(StateUrl)>>)}

SearchInputs ==
    [query : Queries, jurisdiction : Jurisdictions \cup {""},
     state : {"", TheContext.state}, outcome : SearchAnswers]

SearchInit == PipeInit /\ fin \in SearchInputs /\ fout = <<>>

Search ==
    /\ fout = <<>>
    /\ fout' = <<search_legal_sources(fin.query, fin.jurisdiction, fin.state,
                                      fin.outcome)>>
    /\ UNCHANGED <<pipeVars, fin>>

SearchNext == Search

SpecSearch == SearchInit /\ [][SearchNext]_vars

(***************************************************************************)
(* Properties of the search aggregation.                                   *)
(***************************************************************************)
\* The records of the trusted results, in result order: what a scoped query
\* whose payload is well formed is to return.
RECURSIVE TrustedRecords(_, _)
TrustedRecords(results, jurisdiction) ==
    IF results = <<>> THEN <<>>
    ELSE IF is_official_source(Head(results).link)
         THEN <<SourceOf(Head(results), jurisdiction)>>
                  \o TrustedRecords(Tail(results), jurisdiction)
         ELSE TrustedRecords(Tail(results), jurisdiction)

\* What the logged provider call is to contribute when a raised call
\* contributes nothing; malformed payloads are left to the caller of this.
RaisedOrRecords(call, jurisdiction) ==
    IF call.outcome.kind = "raise" THEN <<>>
    ELSE TrustedRecords(call.outcome.payload.organic, jurisdiction)

\* What the logged provider call is to contribute when every failed call, raised
\* or malformed, contributes nothing.
NothingOrRecords(call, jurisdiction) ==
    IF Failed(call.outcome) THEN <<>>
    ELSE TrustedRecords(call.outcome.payload.organic, jurisdiction)

Finished(j) == tstate[j] \in {"done", "raised"}

\* C1: a scoped query whose provider call fails (it raises, or its payload is
\* malformed) yields no record and never raises, and the aggregation goes on:
\* a finished aggregation has made all its queries and returns the records of
\* the queries that did not fail, in order.
C1_FailedQueryYieldsNothing ==
    \A j \in Jurisdictions :
        /\ tstate[j] # "raised"
        /\ tstate[j] = "done" =>
            /\ Len(log[j]) = NumQueries(j)
            /\ tout[j] = Concat([k \in 1..Len(log[j]) |->
                                    NothingOrRecords(log[j][k], j)])

(***************************************************************************)
(* Properties of the pipeline.                                             *)
(***************************************************************************)
RECURSIVE UrlsOf(_)
UrlsOf(laws) == IF laws = <<>> THEN <<>> ELSE <<Head(laws).url>> \o UrlsOf(Tail(laws))

\* C2: the sources of a returned analysis are the URLs of the Federal list,
\* then of the State list, then of the Local list, each in list order and with
\* nothing removed, whatever the order in which the three aggregations ran.
C2_SourcesAreConcatenation ==
    pc = "complete" =>
        /\ Len(outcome.response) = 1
        /\ outcome.response[1].sources =
               UrlsOf(tout["Federal"]) \o UrlsOf(tout["State"]) \o UrlsOf(tout["Local"])
        /\ outcome.response[1].sources =
               UrlsOf(synthIn[1].federal) \o UrlsOf(synthIn[1].state)
                   \o UrlsOf(synthIn[1].local)

\* An analysis was returned after the Local aggregation ran first and the
\* Federal one last, with all three lists populated and one URL in two lists.
C2_Witness ==
    /\ pc = "complete"
    /\ order = <<"Local", "State", "Federal">>
    /\ \A j \in Jurisdictions : tout[j] # <<>>
    /\ \E i \in 1..Len(tout["Federal"]) : \E k \in 1..Len(tout["State"]) :
           tout["Federal"][i].url = tout["State"][k].url

\* The aggregations one of whose provider calls raised.
RaisedBranches ==
    {j \in Jurisdictions : \E k \in 1..Len(log[j]) : log[j][k].outcome.kind = "raise"}

NoMalformed ==
    \A j \in Jurisdictions : \A k \in 1..Len(log[j]) : ~Malformed(log[j][k].outcome)

\* The records are those of the trusted results, one each and in result order.
RecordsOfTrusted(sources, results) ==
    LET trusted == SelectSeq(results, LAMBDA r : is_official_source(r.link))
    IN  /\ Len(sources) = Len(trusted)
        /\ \A i \in 1..Len(trusted) :
               /\ sources[i].url = trusted[i].link
               /\ sources[i].title = trusted[i].title
               /\ sources[i].description = trusted[i].snippet

\* C11: a scoped query whose provider call succeeds (it returns a well-formed
\* payload) returns one record for each result that passes the trusted-domain
\* check, with the url, title and snippet of the result, in result order, and
\* none for the others; the list of an aggregation is the concatenation of the
\* lists of its scoped queries in call order (Federal: domain-list order).
C11_TrustedSubsequenceInOrder ==
    \A j \in Jurisdictions :
        /\ \A k \in 1..Len(log[j]) :
               (log[j][k].outcome.kind = "ok" /\ ~Malformed(log[j][k].outcome)) =>
                   RecordsOfTrusted(log[j][k].sources,
                                    log[j][k].outcome.payload.organic)
        /\ tstate[j] \in {"running", "done"} =>
               tout[j] = Concat([k \in 1..Len(log[j]) |-> log[j][k].sources])

\* All three aggregations are done; the State query returned two records in
\* provider order, every Federal query dropped its untrusted result, and the
\* Federal list follows the domain list.
C11_Witness ==
    /\ \A j \in Jurisdictions : tstate[j] = "done" /\ NoMalformed
    /\ RaisedBranches = {}
    /\ Len(tout["State"]) = 2
    /\ tout["State"][1].url = StateUrl
    /\ tout["State"][2].url = SiteUrl(FEDERAL_SOURCES[1])
    /\ Len(tout["Federal"]) = Len(FEDERAL_SOURCES)
    /\ \A k \in 1..Len(FEDERAL_SOURCES) :
           /\ tout["Federal"][k].url = SiteUrl(FEDERAL_SOURCES[k])
           /\ Len(log["Federal"][k].outcome.payload.organic) = 2
    /\ Len(tout["Local"]) = 1

\* C12: every record a search_legal_sources call returns carries the
\* jurisdiction argument of the call, which is one of Federal, State and Local,
\* also when the call is made without a jurisdiction.
C12_RecordCarriesJurisdiction ==
    fout # <<>> =>
        \A i \in 1..Len(fout[1].sources) :
            /\ fout[1].sources[i].jurisdiction = fin.jurisdiction
            /\ fout[1].sources[i].jurisdiction \in Jurisdictions

AfterSearch == pc \in {"joined", "synthesizing", "complete", "failed"}

\* The provider error stays inside the search: all three aggregations ran to
\* completion and the call did not end with the provider's error.
ErrorContained ==
    /\ \A j \in Jurisdictions : tstate[j] = "done" /\ Len(log[j]) = NumQueries(j)
    /\ outcome.error.type # "ProviderError"
    /\ pc = "complete" => outcome.ok /\ Len(outcome.response) = 1
    /\ pc = "failed" => outcome.error.type \in {"JSONDecodeError", "KeyError", "TypeError"}

\* The aggregations in which a provider call failed: it raised, or its payload
\* was malformed.
FailedBranches ==
    {j \in Jurisdictions : \E k \in 1..Len(log[j]) : Failed(log[j][k].outcome)}

\* C3: when exactly one of the three aggregations hits a provider error (a
\* provider call of it raises or returns a malformed payload), the other two
\* run to completion, the pipeline goes on to synthesis and ends without the
\* provider error reaching the caller, the record list of the failing
\* jurisdiction is empty and the other two lists hold their records.
C3_FailingJurisdictionEmpty ==
    (AfterSearch /\ Cardinality(FailedBranches) = 1) =>
        /\ ErrorContained
        /\ \A j \in Jurisdictions :
               tout[j] = IF j \in FailedBranches THEN <<>>
                         ELSE Concat([k \in 1..Len(log[j]) |->
                                         NothingOrRecords(log[j][k], j)])

\* The transitions of the request lifecycle.
LifecycleEdges ==
    {<<"idle", "searching">>, <<"searching", "joined">>, <<"joined", "synthesizing">>,
     <<"synthesizing", "complete">>, <<"synthesizing", "failed">>,
     <<"complete", "searching">>, <<"failed", "searching">>}

ParseErrors == {"JSONDecodeError", "KeyError", "TypeError"}

\* The run has made every provider call and its model call.
RunWentThrough ==
    /\ \A j \in Jurisdictions : tstate[j] = "done" /\ Len(log[j]) = NumQueries(j)
    /\ synthIn # <<>>
    /\ modelOut # <<>>

\* One step of the lifecycle: the position moves along an edge; the model is
\* invoked from Joined only and answers once; a run that has ended changes
\* nothing until a new run starts, and a new run starts from nothing.
LifecycleStep ==
    /\ pc' # pc => <<pc, pc'>> \in LifecycleEdges
    /\ synthIn' # synthIn =>
           \/ synthIn = <<>> /\ pc = "joined" /\ pc' = "synthesizing"
           \/ synthIn' = <<>> /\ runs' = runs + 1
    /\ modelOut' # modelOut =>
           \/ modelOut = <<>> /\ pc = "synthesizing" /\ pc' \in {"complete", "failed"}
           \/ modelOut' = <<>> /\ runs' = runs + 1
    /\ pc \in {"complete", "failed"} => pc' = "searching"
    /\ runs' # runs =>
           /\ runs' = runs + 1
           /\ pc \in {"idle", "complete", "failed"}
           /\ pc' = "searching"
           /\ \A j \in Jurisdictions :
                  tstate'[j] = "ready" /\ tpos'[j] = 0 /\ log'[j] = <<>> /\ tout'[j] = <<>>
           /\ synthIn' = <<>>
           /\ modelOut' = <<>>

\* C14: each query goes Idle, Searching, Joined, Synthesizing, then Complete
\* or Failed with a parse error, and makes no other transition: the model is
\* invoked at most once per query, a failure is terminal, and a resubmission
\* is a fresh run that makes all its provider calls and its model call again.
C14_Lifecycle ==
    /\ [](pc \in {"complete", "failed"} => RunWentThrough)
    /\ [](pc = "failed" => outcome.error.type \in ParseErrors)
    /\ [](pc = "complete" => outcome.ok)
    /\ [][LifecycleStep]_vars

\* The second run of the session has made all its provider calls and its one
\* model call and has ended in a parse failure.
C14_Witness ==
    /\ runs = 2
    /\ pc = "failed"
    /\ outcome.error.type = "JSONDecodeError"
    /\ RunWentThrough

\* C15: a run acquires the client session of the service when it starts and
\* holds it until it ends; when no run is under way (before the first, and
\* after each has ended, completed or failed) the service holds no open
\* session.
C15_RunOwnsItsSession ==
    /\ pc \in {"searching", "joined", "synthesizing"} => session = get_session(session)
    /\ pc \in {"idle", "complete", "failed"} => session = "none"

\* C16: the endpoint answers 200 with the seven fields of the analysis when the
\* pipeline run of the request succeeds, and answers with an error status
\* exactly when the run fails.
C16_EndpointReturnsAnalysis ==
    fout # <<>> =>
        LET r == PipelineRun(fin.request.query, fin.request.context, fin.plan,
                             fin.raw).result
        IN  /\ fout[1].status = 200 <=> r.ok
            /\ r.ok =>
                   /\ Len(fout[1].body) = 1
                   /\ fout[1].body[1].summary = r.response[1].summary
                   /\ fout[1].body[1].sources = r.response[1].sources
                   /\ fout[1].body[1].response_time = r.response[1].response_time

(***************************************************************************)
(* Properties of the Streamlit application (SpecApp).                      *)
(***************************************************************************)
\* The submission lacks a field: a text input left empty, or no area of law
\* selected.
FieldMissing(r) ==
    \/ r.city = ""
    \/ r.state = ""
    \/ r.business_type = ""
    \/ r.area_of_law = AreaPlaceholder

SubmittedContext(r) ==
    [city |-> r.city, state |-> r.state, business_type |-> r.business_type,
     area_of_law |-> r.area_of_law]

\* A script run that serves a context submission begins: no script run was
\* under way and the request served is now a submission.
SubmissionStep ==
    (pc \in {"idle", "complete", "failed"} /\ request'.handler = "submit") =>
        IF FieldMissing(request')
        THEN UNCHANGED <<business_context, chat_history, runs, pc, manifestWrites,
                         applicable_laws>>
        ELSE /\ business_context' = <<SubmittedContext(request')>>
             /\ chat_history' = <<>>
             /\ runs' = runs + 1
             /\ pc' = "searching"
             /\ args' = [query |-> SummaryPrompt, context |-> SubmittedContext(request')]
             /\ \A j \in Jurisdictions : log'[j] = <<>>

\* C17: a submission with all fields filled makes the submitted context the
\* active one and leaves the chat history empty before the query it runs makes
\* its first provider call, and that query is run with the new context; a
\* submission with a missing field changes neither the context nor the chat
\* history and starts no pipeline run.
C17_SubmissionReplacesContext ==
    [][SubmissionStep]_vars

\* The manifest has the three keys, and once the search of the current run has
\* been joined it holds the three lists of that search.
ManifestWellFormed ==
    manifest # <<>> =>
        /\ DOMAIN manifest[1] = ManifestKeys
        /\ (pc \in {"joined", "synthesizing", "complete", "failed"} /\ searchTime >= 0) =>
               /\ manifest[1]["Federal Laws"] = tout["Federal"]
               /\ manifest[1]["State Laws"] = tout["State"]
               /\ manifest[1]["Local Laws"] = tout["Local"]

\* The manifest is written only when the search of a context submission is
\* joined, once; the run of a chat query does not write it.
ManifestStep ==
    /\ manifestWrites' # manifestWrites =>
           /\ manifestWrites' = manifestWrites + 1
           /\ pc = "searching" /\ pc' = "joined"
    /\ (request.handler = "submit" /\ pc = "searching" /\ pc' = "joined") =>
           manifestWrites' = manifestWrites + 1
    /\ (request.handler = "chat" /\ request'.handler = "chat") =>
           manifestWrites' = manifestWrites /\ manifest' = manifest

\* C18: the manifest is written once by the search of each context submission
\* and is not rewritten by the chat queries that follow; a written manifest has
\* exactly the keys Federal Laws, State Laws and Local Laws, with the three
\* record lists of that search in list order.
C18_ManifestWrittenOncePerContext ==
    []ManifestWellFormed /\ [][ManifestStep]_vars

\* C19: whenever a business context is active and the chat interface is
\* rendered (no script run is waiting inside its pipeline run),
\* applicable_laws.txt exists and holds the analysis of the initial search of
\* that context, also after a submission whose pipeline run failed.
C19_ArtifactIsOfActiveContext ==
    (business_context # <<>> /\ pc \in {"idle", "complete", "failed"}) =>
        /\ applicable_laws # <<>>
        /\ RenderChat(business_context, applicable_laws) = "rendered"
        /\ "summary" \in DOMAIN Eval(applicable_laws[1])
        /\ artifactContext = business_context

Max3(a, b, c) == Max2(a, Max2(b, c))

\* C4: the provider call is a suspension point (while one aggregation waits
\* for the provider, another that is ready can run), and the search phase
\* lasts as long as the slowest aggregation, not as long as the three together.
C4_SearchesOverlap ==
    /\ \A j, k \in Jurisdictions :
           (tstate[j] = "blocked" /\ tstate[k] = "ready") => ENABLED TaskStart(k)
    /\ searchTime >= 0 =>
           searchTime = Max3(busy["Federal"], busy["State"], busy["Local"])

\* C5: the model is invoked only after all three aggregations have returned,
\* and generate_response is given the complete list of each: the records of
\* all its scoped queries.
C5_JoinIsBarrier ==
    (pc \in {"joined", "synthesizing", "complete"} \/ synthIn # <<>>) =>
        /\ \A j \in Jurisdictions :
               /\ tstate[j] = "done"
               /\ tpos[j] = IF j = "Federal" THEN Len(FEDERAL_SOURCES) ELSE 1
               /\ Len(log[j]) = tpos[j]
        /\ synthIn # <<>> =>
               /\ synthIn[1].federal = tout["Federal"]
               /\ synthIn[1].state = tout["State"]
               /\ synthIn[1].local = tout["Local"]
               /\ NoMalformed =>
                      \A j \in Jurisdictions :
                          tout[j] = Concat([k \in 1..Len(log[j]) |->
                                               RaisedOrRecords(log[j][k], j)])

\* The model is being invoked after the Federal aggregation ran last; all
\* three lists are populated.
C5_Witness ==
    /\ pc = "synthesizing"
    /\ order[3] = "Federal"
    /\ \A j \in Jurisdictions : tout[j] # <<>>
    /\ Len(synthIn[1].federal) = Len(FEDERAL_SOURCES)

\* The text the exception carries.
Carries(error, text) == error.type # "none" /\ error.doc = text

\* C6: when the model output does not decode after fence-stripping, the call
\* fails with an error that carries both the raw model text and the cleaned
\* text, the failure reaches the caller, and no analysis is returned.
C6_ParseErrorCarriesRawAndCleaned ==
    (pc \in {"complete", "failed"} /\ ~JsonDecodes(CleanResult(modelOut[1]))) =>
        /\ pc = "failed"
        /\ outcome.response = <<>>
        /\ Carries(outcome.error, CleanResult(modelOut[1]))
        /\ Carries(outcome.error, modelOut[1])

\* C10: get_federal_laws makes one provider call per configured federal
\* domain, in domain-list order, whatever the earlier calls did and whatever
\* ran before; get_state_laws and get_local_laws make one call each.
C10_OneCallPerDomainInOrder ==
    /\ \A k \in 1..Len(log["Federal"]) :
           /\ k <= Len(FEDERAL_SOURCES)
           /\ log["Federal"][k].query =
                  args.query \o <<"site:">> \o FEDERAL_SOURCES[k] \o <<"site:(.gov)">>
    /\ Len(log["State"]) <= 1
    /\ Len(log["Local"]) <= 1
    /\ Finished("Federal") => Len(log["Federal"]) = Len(FEDERAL_SOURCES)
    /\ Finished("State") =>
           /\ Len(log["State"]) = 1
           /\ log["State"][1].query =
                  args.query \o <<args.context.state, "state law", "site:(.gov)">>
    /\ Finished("Local") =>
           /\ Len(log["Local"]) = 1
           /\ log["Local"][1].query =
                  args.query \o <<args.context.city, args.context.state>>
                      \o <<"local law", "site:(.gov)">>
    /\ \A j \in Jurisdictions :
           Len(log[j]) + (IF tstate[j] = "blocked" THEN 1 ELSE 0)
               = tpos[j] + Len(SelectSeq(inflight, LAMBDA c : c.task = j))

\* The second call of the session has finished its Federal aggregation, whose
\* third domain query raised while the others answered.
C10_Witness ==
    /\ runs = 2
    /\ tstate["Federal"] = "done"
    /\ log["Federal"][3].outcome.kind = "raise"
    /\ \A k \in 1..Len(FEDERAL_SOURCES) : k # 3 => log["Federal"][k].outcome.kind = "ok"

(***************************************************************************)
(* Properties of the cleaning and decoding of the model output (SpecText). *)
(***************************************************************************)
WsRuns == SeqsUpTo({Ws}, MaxTextLen)
ProseRuns == SeqsUpTo({Ws, Prose}, MaxTextLen)

\* J in a fence with the tag json after the leading delimiter.
FencedTagged(J) == {<<Fence, Tag>> \o a \o <<J>> \o b \o <<Fence>> : a, b \in WsRuns}

\* J in a fence without a tag.
FencedPlain(J) == {<<Fence>> \o a \o <<J>> \o b \o <<Fence>> : a, b \in WsRuns}

\* J, bare or in a json fence, with prose or whitespace before and after it.
Wrapped(J) ==
    {pre \o body \o post :
        pre \in ProseRuns, body \in {<<J>>} \cup FencedTagged(J), post \in ProseRuns}

FiveFieldDocs == {d \in JsonDocs : Range(RequiredKeys) \subseteq JsonValue(d).keys}

\* The response holds the five values of document J.
BuiltFrom(response, J) ==
    /\ response.summary = <<JsonValue(J).id, "summary">>
    /\ response.key_points = <<JsonValue(J).id, "key_points">>
    /\ response.jurisdiction_analysis = <<JsonValue(J).id, "jurisdiction_analysis">>
    /\ response.compliance_steps = <<JsonValue(J).id, "compliance_steps">>
    /\ response.overlapping_regulations = <<JsonValue(J).id, "overlapping_regulations">>

\* C7: a JSON document in a fence, with or without a language tag after the
\* leading delimiter, decodes to what the bare document decodes to.
C7_FenceIsStripped ==
    fout # <<>> =>
        \A J \in JsonDocs :
            fin \in FencedTagged(J) \cup FencedPlain(J) =>
                fout[1].decoded = <<JsonValue(J)>>

\* C8: a document with the five fields, bare or in a json fence, is
\* accepted with prose before or after it, and the analysis is built from it.
C8_ProseIsTolerated ==
    fout # <<>> =>
        \A J \in FiveFieldDocs :
            fin \in Wrapped(J) =>
                /\ fout[1].result.ok
                /\ Len(fout[1].result.response) = 1
                /\ BuiltFrom(fout[1].result.response[1], J)

\* C13: when the cleaned output decodes, a decoded value that is not an object
\* or lacks one of the five required keys makes the call fail with
\* SynthesisParseError and return no analysis; a decoded object with the five
\* keys gives an analysis that carries its five values.
C13_SchemaIsValidated ==
    (fout # <<>> /\ fout[1].decoded # <<>>) =>
        LET v == fout[1].decoded[1]
            r == fout[1].result
        IN  IF v.type # "object" \/ ~(Range(RequiredKeys) \subseteq v.keys)
            THEN /\ ~r.ok
                 /\ r.response = <<>>
                 /\ r.error.type = "SynthesisParseError"
            ELSE /\ r.ok
                 /\ Len(r.response) = 1
                 /\ \E J \in FiveFieldDocs :
                        JsonValue(J) = v /\ BuiltFrom(r.response[1], J)

(***************************************************************************)
(* Properties of the trusted-domain check (SpecUrl).                       *)
(***************************************************************************)
\* The rest of s after its last token t (all of s when it holds none).
RECURSIVE AfterLast(_, _)
AfterLast(s, t) ==
    IF t \notin Range(s) THEN s
    ELSE AfterLast(Tail(s), t)

\* The host of the URL, lower-cased: the netloc without userinfo and port.
HostOf(url) == Lower(TakeUntil(AfterLast(Netloc(url), "@"), {":"}))

HostTrusted(url) ==
    \E k \in 1..Len(DOMAIN_PRIORITY) : EndsWith(HostOf(url), DOMAIN_PRIORITY[k])

\* C9: the check is true exactly when the host of the URL, lower-cased, ends
\* with .gov or .org, also for a URL with a port or userinfo.
C9_TrustedIffHostSuffix == fout # <<>> => (fout[1] <=> HostTrusted(fin))

====
